---- MODULE Spec2Model ----
(***************************************************************************)
(* Model of the two analysis pipelines of the repository:                  *)
(*   src/src/python_analysis.py  (radon + pylint, "python")                *)
(*   src/src/react_analyzer.py   (ESLint + complexity-report, "react")     *)
(* One run = walk the folder, analyze_code per matching file, aggregate,   *)
(* render.  External tools are the environment: each call's outcome is a   *)
(* nondeterministic choice.                                                *)
(*                                                                         *)
(* Numbers.  Python ints and floats are kept apart, because the renderers  *)
(* format them differently.  A number is [f |-> is it a float, m |-> its   *)
(* value in thousandths]; float arithmetic is fixed point, truncated to    *)
(* three decimals.                                                         *)
(***************************************************************************)
EXTENDS Integers, Sequences, FiniteSets, TLC

VARIABLES
    analyzer,       \* which script runs: "python" or "react"
    report_format,  \* args.format
    root_ok,        \* does os.scandir succeed on folder_path
    parent,         \* directory tree: parent[d] of directory d (0 is folder_path)
    dname,          \* dname[d]: the name of directory d
    files,          \* the files on disk: records [dir, name]
    stack,          \* os.walk: directories still to be visited, next first
    pending,        \* the `for file in files` loop: files of the current directory left
    all_metrics,    \* analyze_project_folder's list
    error_log,      \* complexity_report_errors.log, one entry per block
    aggregated,     \* aggregate_metrics' dict, as its (key, value) items in order
    output,         \* the documents written at output_path, oldest first
    passed,         \* history: every analyze_code call in order, [file, failed]:
                    \* the file_path it got and the tools that failed in it
    exc,            \* the exception that ended the run, "none" if none did
    pc              \* "walk", "aggregate", "render", "done", "failed"

vars == <<analyzer, report_format, root_ok, parent, dname, files, stack, pending,
          all_metrics, error_log, aggregated, output, passed, exc, pc>>

-----------------------------------------------------------------------------
(* Bounds *)

\* directories below folder_path in the nested-folder specification
MaxDirs == 3
\* files in folder_path in the flat-folder specification
MaxFiles == 2

-----------------------------------------------------------------------------
(* Numbers *)

I(n) == [f |-> FALSE, m |-> n * 1000]
F(m) == [f |-> TRUE, m |-> m]

RECURSIVE SumMilli(_)
SumMilli(s) == IF s = <<>> THEN 0 ELSE Head(s).m + SumMilli(Tail(s))

AnyFloat(s) == \E i \in 1..Len(s) : s[i].f

\* builtin sum() over numbers
PySum(s) == [f |-> AnyFloat(s), m |-> SumMilli(s)]

\* builtin max() over a non-empty list: the first largest element
PyMax(s) ==
    LET best == CHOOSE i \in 1..Len(s) :
                    /\ \A j \in 1..Len(s) : s[j].m <= s[i].m
                    /\ \A j \in 1..(i - 1) : s[j].m < s[i].m
    IN  s[best]

\* statistics.mean: an int when the data are ints and the mean is whole
StatMean(s) ==
    LET q == SumMilli(s) \div Len(s)
        whole == (SumMilli(s) % (Len(s) * 1000)) = 0
    IN  [f |-> AnyFloat(s) \/ ~whole, m |-> q]

\* sum(xs) / len(xs): true division, always a float
TrueDivMean(s) == F(SumMilli(s) \div Len(s))

\* max(0, min(x, 100)): the bound itself (an int) when x is outside
Clamp0To100(x) ==
    LET lo == IF I(100).m < x.m THEN I(100) ELSE x
    IN  IF lo.m > 0 THEN lo ELSE I(0)

-----------------------------------------------------------------------------
(* File names, as character sequences *)

Name_a_py  == <<"a", ".", "p", "y">>
Name_b_py  == <<"b", ".", "p", "y">>
Name_d_js  == <<"d", ".", "j", "s">>
Name_e_jsx == <<"e", ".", "j", "s", "x">>
Name_f_ts  == <<"f", ".", "t", "s">>
Name_g_tsx == <<"g", ".", "t", "s", "x">>
Name_h_txt == <<"h", ".", "t", "x", "t">>
Name_i_pyc == <<"i", ".", "p", "y", "c">>

\* os.listdir order of the names used
NameOrder == <<Name_a_py, Name_b_py, Name_d_js, Name_e_jsx, Name_f_ts,
               Name_g_tsx, Name_h_txt, Name_i_pyc>>

\* the names the files of a flat folder are drawn from
FileNames == {Name_a_py, Name_b_py, Name_d_js, Name_e_jsx, Name_g_tsx,
              Name_h_txt, Name_i_pyc}

DirNames == {"venv", "node_modules", "pkg"}

\* str.endswith(suffix)
EndsWith(name, suffix) ==
    /\ Len(name) >= Len(suffix)
    /\ SubSeq(name, Len(name) - Len(suffix) + 1, Len(name)) = suffix

PyExtensions == {<<".", "p", "y">>}
JsExtensions == {<<".", "j", "s">>, <<".", "j", "s", "x">>,
                 <<".", "t", "s">>, <<".", "t", "s", "x">>}

\* file.endswith(".py") / file.endswith(('.js', '.jsx', '.ts', '.tsx'))
Matches(an, name) ==
    \E suf \in (IF an = "python" THEN PyExtensions ELSE JsExtensions) :
        EndsWith(name, suf)

\* exclude_folders=['venv'] / ['node_modules']
ExcludeFolders(an) == IF an = "python" THEN {"venv"} ELSE {"node_modules"}

-----------------------------------------------------------------------------
(* Metrics records: a dict, as its (key, value) items in insertion order *)

Get(d, k) == LET i == CHOOSE j \in 1..Len(d) : d[j][1] = k IN d[i][2]

Ints(s) == [i \in 1..Len(s) |-> I(s[i])]

-----------------------------------------------------------------------------
(* python_analysis.py: analyze_code *)

\* What the file and the libraries can do for one file.
\*   read    "ok" | "ioerror"     open()/f.read() (unreadable, not UTF-8)
\*   parse   "ok" | "syntax"      cc_visit on source that does not parse
\*   cc      block complexities   cc_visit
\*   lines   len(code_content.splitlines())
\*   halstead  is list(h_visit(...)) non-empty
\*   pylint  "ok" | "raises"      Run([file_path], exit=False)
PyOutcomes ==
    {[read |-> "ioerror", parse |-> "ok", cc |-> <<>>, lines |-> 12,
      halstead |-> FALSE, pylint |-> "ok"],
     [read |-> "ok", parse |-> "syntax", cc |-> <<>>, lines |-> 12,
      halstead |-> FALSE, pylint |-> "ok"]}
    \cup
    [read : {"ok"}, parse : {"ok"}, cc : {<<>>, <<1>>, <<2, 9>>},
     lines : {3, 12, 40}, halstead : BOOLEAN, pylint : {"ok", "raises"}]

\* the exception analyze_code lets through, "none" if it returns
PyRaises(o) ==
    IF o.read = "ioerror" THEN "OSError"
    ELSE IF o.parse = "syntax" THEN "SyntaxError"
    ELSE "none"

\* 171 - 5.2 * lines - 0.23 * volume - 16.2 * avg_cc if cc_scores else 100
PyRawMaintainability(o, volume, avg_cc) ==
    IF o.cc # <<>>
    THEN F(171000 - 5200 * o.lines - ((23 * volume.m) \div 100)
               - ((162 * avg_cc.m) \div 10))
    ELSE I(100)

PlainMaintainability(x) == x

\* maintainability_index = max(0, min(maintainability_index, 100))
PyMaintainability(x) == Clamp0To100(x)

\* except Exception: pylint_score = 0
PylintFallbackScore == I(0)

PylintScore(o) == IF o.pylint = "ok" THEN F(7500) ELSE PylintFallbackScore

PyAnalyzeCode(file_path, o) ==
    LET cc_scores == Ints(o.cc)
        avg_cc == IF cc_scores # <<>> THEN StatMean(cc_scores) ELSE I(0)
        max_cc == IF cc_scores # <<>> THEN PyMax(cc_scores) ELSE I(0)
        h == o.halstead
        total_operators == IF h THEN I(4) ELSE I(0)
        total_operands == IF h THEN I(7) ELSE I(0)
        vocabulary == IF h THEN I(11) ELSE I(0)
        length == IF h THEN I(20) ELSE I(0)
        volume == IF h THEN F(69189) ELSE I(0)
        difficulty == IF h THEN F(2500) ELSE I(0)
        effort == IF h THEN F(172972) ELSE I(0)
        mi == PyMaintainability(PyRawMaintainability(o, volume, avg_cc))
    IN  << <<"file_path", file_path>>,
           <<"Cyclomatic Complexity (avg)", avg_cc>>,
           <<"Cyclomatic Complexity (max)", max_cc>>,
           <<"Halstead Vocabulary", vocabulary>>,
           <<"Halstead Length", length>>,
           <<"Halstead Volume", volume>>,
           <<"Halstead Effort", effort>>,
           <<"Halstead Difficulty", difficulty>>,
           <<"Total Operators", total_operators>>,
           <<"Total Operands", total_operands>>,
           <<"Lines of Code", I(o.lines)>>,
           <<"Comments", I(2)>>,
           <<"Maintainability Index", mi>>,
           <<"PEP-8 Score", PylintScore(o)>> >>

-----------------------------------------------------------------------------
(* react_analyzer.py: analyze_code, log_error *)

\* ESLint call for one file.
\*   kind  "ok"        exit 0, stdout is a JSON list; results = the number of
\*                     messages of each entry
\*         "exit"      non-zero exit (CalledProcessError)
\*         "notfound"  FileNotFoundError
\*         "badjson"   exit 0, stdout is not JSON
EslintOutcomes ==
    {[kind |-> "ok", results |-> <<2>>],
     [kind |-> "ok", results |-> <<>>],
     [kind |-> "exit", results |-> <<>>],
     [kind |-> "notfound", results |-> <<>>],
     [kind |-> "badjson", results |-> <<>>]}

\* complexity-report call for one file.
\*   kind  "missing"      COMPLEXITY_REPORT_PATH does not exist
\*         "exit"         non-zero exit (CalledProcessError)
\*         "empty"        exit 0, blank stdout
\*         "badjson"      exit 0, stdout is not JSON
\*         "nofunctions"  JSON without a 'functions' key
\*         "keyerror"     a function entry without 'cyclomatic'
\*         "ok"           cc = the functions' cyclomatic values; mi = the
\*                        'maintainability' value, <<>> when the key is absent;
\*                        halstead = is aggregate.halstead present
CrOutcomes ==
    {[kind |-> k, cc |-> <<>>, mi |-> <<>>, halstead |-> FALSE] :
        k \in {"missing", "exit", "empty", "badjson", "nofunctions", "keyerror"}}
    \cup
    {[kind |-> "ok", cc |-> <<2, 9>>, mi |-> <<F(90000)>>, halstead |-> TRUE],
     [kind |-> "ok", cc |-> <<1, 2>>, mi |-> <<F(65250)>>, halstead |-> TRUE],
     [kind |-> "ok", cc |-> <<1>>, mi |-> <<F(40000)>>, halstead |-> TRUE],
     [kind |-> "ok", cc |-> <<>>, mi |-> <<F(120500)>>, halstead |-> FALSE],
     [kind |-> "ok", cc |-> <<30>>, mi |-> <<F(0 - 5000)>>, halstead |-> TRUE],
     [kind |-> "ok", cc |-> <<1>>, mi |-> <<>>, halstead |-> TRUE]}

ReactOutcomes == [eslint : EslintOutcomes, cr : CrOutcomes]

CrLogged == {"missing", "exit", "empty", "badjson"}

\* the exception analyze_code lets through, "none" if it returns
ReactRaises(o) ==
    IF o.eslint.kind = "badjson" THEN "JSONDecodeError"
    ELSE IF o.cr.kind = "keyerror" THEN "KeyError"
    ELSE "none"

\* what failed in the call: open()/read ("source"), radon on source that does
\* not parse, pylint raising; ESLint ending in either handler or printing no
\* JSON; complexity-report missing, exiting non-zero, printing nothing or
\* printing JSON that cannot be used
PyFailed(o) ==
    IF o.read = "ioerror" THEN {"source"}
    ELSE IF o.parse = "syntax" THEN {"radon"}
    ELSE IF o.pylint = "raises" THEN {"pylint"}
    ELSE {}

ReactFailed(o) ==
    (IF o.eslint.kind # "ok" THEN {"eslint"} ELSE {})
    \cup
    (IF o.eslint.kind # "badjson" /\ o.cr.kind \in CrLogged \cup {"keyerror"}
     THEN {"complexity-report"} ELSE {})

\* len(eslint_results[0]['messages']) if eslint_results else 0; 0 in both handlers
EslintIssues(e) ==
    IF e.kind = "ok" /\ e.results # <<>> THEN I(e.results[1]) ELSE I(0)

\* total_operators = total_operands = maintainability_index = 100
CrFallbackOperators == I(100)

CrFallbackMaintainability == I(100)

\* complexity_data.get('maintainability', 100)
CrMaintainability(c) == IF c.mi # <<>> THEN c.mi[1] ELSE I(100)

ReactAnalyzeCode(file_path, o) ==
    LET c == o.cr
        ok == c.kind = "ok"
        cc_scores == Ints(c.cc)
        avg_cc == IF ok /\ cc_scores # <<>> THEN TrueDivMean(cc_scores) ELSE I(0)
        max_cc == IF ok /\ cc_scores # <<>> THEN PyMax(cc_scores) ELSE I(0)
        h == ok /\ c.halstead
        volume == IF h THEN F(250500) ELSE I(0)
        difficulty == IF h THEN F(12250) ELSE I(0)
        effort == IF h THEN F(3068625) ELSE I(0)
        vocabulary == IF h THEN I(21) ELSE I(0)
        length == IF h THEN I(57) ELSE I(0)
        total_operators ==
            IF ok THEN (IF h THEN I(30) ELSE I(0)) ELSE CrFallbackOperators
        total_operands ==
            IF ok THEN (IF h THEN I(27) ELSE I(0)) ELSE CrFallbackOperators
        maintainability_index ==
            IF ok THEN CrMaintainability(c) ELSE CrFallbackMaintainability
    IN  << <<"file_path", file_path>>,
           <<"ESLint Issues", EslintIssues(o.eslint)>>,
           <<"Cyclomatic Complexity (avg)", avg_cc>>,
           <<"Cyclomatic Complexity (max)", max_cc>>,
           <<"Halstead Vocabulary", vocabulary>>,
           <<"Halstead Length", length>>,
           <<"Halstead Volume", volume>>,
           <<"Halstead Effort", effort>>,
           <<"Halstead Difficulty", difficulty>>,
           <<"Total Operators", total_operators>>,
           <<"Total Operands", total_operands>>,
           <<"Maintainability Index", maintainability_index>> >>

LoggedOnAnyFailure(file_path, o) ==
    IF ReactFailed(o) # {}
    THEN << [file |-> file_path, detail |-> o.cr.kind] >>
    ELSE <<>>

\* log_error(file_path, ...) in the two handlers of the complexity-report block;
\* the ESLint handlers only print
ReactLogged(file_path, o) ==
    IF o.eslint.kind # "badjson" /\ o.cr.kind \in CrLogged
    THEN << [file |-> file_path, detail |-> o.cr.kind] >>
    ELSE <<>>

Failed(an, o) == IF an = "python" THEN PyFailed(o) ELSE ReactFailed(o)

\* one analyze_code call
Raises(an, o) == IF an = "python" THEN PyRaises(o) ELSE ReactRaises(o)

AnalyzeCode(an, file_path, o) ==
    IF an = "python" THEN PyAnalyzeCode(file_path, o)
    ELSE ReactAnalyzeCode(file_path, o)

Logged(an, file_path, o) ==
    IF an = "python" THEN <<>> ELSE ReactLogged(file_path, o)

Outcomes(an) == IF an = "python" THEN PyOutcomes ELSE ReactOutcomes

-----------------------------------------------------------------------------
(* analyze_project_folder: os.walk with pruning *)

Root == 0

RECURSIVE Ascending(_)
\* the members of a finite set of integers, smallest first
Ascending(S) ==
    IF S = {} THEN <<>>
    ELSE LET lo == CHOOSE x \in S : \A y \in S : x <= y
         IN  <<lo>> \o Ascending(S \ {lo})

\* os.scandir(d): the subdirectories of d (in directory order)
SubDirs(d) == Ascending({c \in DOMAIN parent : parent[c] = d})

\* os.scandir(d): the files of d (in directory order)
Listing(d) ==
    LET here == SelectSeq(NameOrder,
                          LAMBDA n : [dir |-> d, name |-> n] \in files)
    IN  [i \in 1..Len(here) |-> [dir |-> d, name |-> here[i]]]

Unpruned(an, dirs) == dirs

\* dirs[:] = [d for d in dirs if d not in exclude_folders]
Prune(an, dirs) ==
    SelectSeq(dirs, LAMBDA c : dname[c] \notin ExcludeFolders(an))

\* os.walk yields one directory: the loop body prunes dirs, then runs over files.
\* A directory that cannot be listed is skipped silently (onerror is None).
VisitDir ==
    /\ pc = "walk"
    /\ pending = <<>>
    /\ stack # <<>>
    /\ LET d == Head(stack)
       IN  IF d = Root /\ ~root_ok
           THEN /\ stack' = Tail(stack)
                /\ pending' = <<>>
           ELSE /\ stack' = Prune(analyzer, SubDirs(d)) \o Tail(stack)
                /\ pending' = Listing(d)
    /\ UNCHANGED <<analyzer, report_format, root_ok, parent, dname, files,
                   all_metrics, error_log, aggregated, output, passed, exc, pc>>

\* a file whose name does not end with a wanted extension
SkipFile ==
    /\ pc = "walk"
    /\ pending # <<>>
    /\ ~Matches(analyzer, Head(pending).name)
    /\ pending' = Tail(pending)
    /\ UNCHANGED <<analyzer, report_format, root_ok, parent, dname, files, stack,
                   all_metrics, error_log, aggregated, output, passed, exc, pc>>

\* metrics = analyze_code(file_path); all_metrics.append(metrics)
AnalyzeFile(Outs) ==
    /\ pc = "walk"
    /\ pending # <<>>
    /\ Matches(analyzer, Head(pending).name)
    /\ \E o \in Outs :
          LET file_path == Head(pending)
          IN  /\ passed' = Append(passed, [file |-> file_path,
                                           failed |-> Failed(analyzer, o)])
              /\ error_log' = error_log \o Logged(analyzer, file_path, o)
              /\ IF Raises(analyzer, o) = "none"
                 THEN /\ all_metrics' =
                            Append(all_metrics, AnalyzeCode(analyzer, file_path, o))
                      /\ pending' = Tail(pending)
                      /\ UNCHANGED <<exc, pc>>
                 ELSE /\ exc' = Raises(analyzer, o)
                      /\ pc' = "failed"
                      /\ UNCHANGED <<all_metrics, pending>>
    /\ UNCHANGED <<analyzer, report_format, root_ok, parent, dname, files, stack,
                   aggregated, output>>

\* os.walk is exhausted: return all_metrics
EndWalk ==
    /\ pc = "walk"
    /\ pending = <<>>
    /\ stack = <<>>
    /\ pc' = "aggregate"
    /\ UNCHANGED <<analyzer, report_format, root_ok, parent, dname, files, stack,
                   pending, all_metrics, error_log, aggregated, output, passed, exc>>

-----------------------------------------------------------------------------
(* aggregate_metrics *)

Column(ms, k) == [i \in 1..Len(ms) |-> Get(ms[i], k)]

PyAggregateMetrics(ms) ==
    IF ms = <<>> THEN <<>>
    ELSE << <<"Total Files", I(Len(ms))>>,
            <<"Average Cyclomatic Complexity",
              StatMean(Column(ms, "Cyclomatic Complexity (avg)"))>>,
            <<"Maximum Cyclomatic Complexity",
              PyMax(Column(ms, "Cyclomatic Complexity (max)"))>>,
            <<"Average Halstead Volume", StatMean(Column(ms, "Halstead Volume"))>>,
            <<"Average Halstead Effort", StatMean(Column(ms, "Halstead Effort"))>>,
            <<"Average Halstead Difficulty",
              StatMean(Column(ms, "Halstead Difficulty"))>>,
            <<"Total Lines of Code", PySum(Column(ms, "Lines of Code"))>>,
            <<"Total Comments", PySum(Column(ms, "Comments"))>>,
            <<"Average Maintainability Index",
              StatMean(Column(ms, "Maintainability Index"))>>,
            <<"Average PEP-8 Score", StatMean(Column(ms, "PEP-8 Score"))>> >>

ReactAggregateMetrics(ms) ==
    IF ms = <<>> THEN <<>>
    ELSE << <<"Total Files", I(Len(ms))>>,
            <<"Total ESLint Issues", PySum(Column(ms, "ESLint Issues"))>>,
            <<"Average ESLint Issues per File",
              StatMean(Column(ms, "ESLint Issues"))>>,
            <<"Average Cyclomatic Complexity",
              StatMean(Column(ms, "Cyclomatic Complexity (avg)"))>>,
            <<"Maximum Cyclomatic Complexity",
              PyMax(Column(ms, "Cyclomatic Complexity (max)"))>>,
            <<"Average Halstead Volume", StatMean(Column(ms, "Halstead Volume"))>>,
            <<"Average Halstead Effort", StatMean(Column(ms, "Halstead Effort"))>>,
            <<"Average Halstead Difficulty",
              StatMean(Column(ms, "Halstead Difficulty"))>>,
            <<"Average Maintainability Index",
              StatMean(Column(ms, "Maintainability Index"))>> >>

\* a record none of whose values is a fallback of a handler
NotDefaulted(r) ==
    \A j \in 1..Len(r) :
        r[j][1] \in {"PEP-8 Score", "ESLint Issues"} => r[j][2].m # 0

AggregateSkippingDefaulted(an, ms) ==
    IF an = "python" THEN PyAggregateMetrics(SelectSeq(ms, NotDefaulted))
    ELSE ReactAggregateMetrics(SelectSeq(ms, NotDefaulted))

AggregateMetrics(an, ms) ==
    IF an = "python" THEN PyAggregateMetrics(ms) ELSE ReactAggregateMetrics(ms)

Aggregate ==
    /\ pc = "aggregate"
    /\ aggregated' = AggregateMetrics(analyzer, all_metrics)
    /\ pc' = "render"
    /\ UNCHANGED <<analyzer, report_format, root_ok, parent, dname, files, stack,
                   pending, all_metrics, error_log, output, passed, exc>>

-----------------------------------------------------------------------------
(* Report text.  A rendered number is [dec |-> decimals shown, val |-> the  *)
(* digits as an integer]: "65.25" is [dec |-> 2, val |-> 6525].             *)

Pow10(k) == CASE k = 0 -> 1 [] k = 1 -> 10 [] k = 2 -> 100 [] OTHER -> 1000

\* str(x) / f"{x}": an int has no decimals, a float its shortest exact form,
\* with at least one decimal
Str(x) ==
    IF ~x.f THEN [dec |-> 0, val |-> x.m \div 1000]
    ELSE LET k == CHOOSE j \in 1..3 :
                      /\ x.m % Pow10(3 - j) = 0
                      /\ \A i \in 1..(j - 1) : x.m % Pow10(3 - i) # 0
         IN  [dec |-> k, val |-> x.m \div Pow10(3 - k)]

\* f"{x:.2f}"
Fmt2f(x) ==
    LET q == x.m \div 10
        r == x.m % 10
    IN  [dec |-> 2,
         val |-> IF r > 5 \/ (r = 5 /\ q % 2 = 1) THEN q + 1 ELSE q]

\* f"{value:.2f}" if isinstance(value, float) else str(value)
Cell(x) == IF x.f THEN Fmt2f(x) ELSE Str(x)

\* the three-way test on file_metrics["Maintainability Index"]
Band(mi) ==
    IF mi.m >= I(80).m THEN "favorable"
    ELSE IF mi.m >= I(50).m THEN "moderate"
    ELSE "unfavorable"

NotFilePath(kv) == kv[1] # "file_path"

\* for metric, value in d.items(): one table row each
WordRows(d) == [i \in 1..Len(d) |-> <<d[i][1], Cell(d[i][2])>>]

HtmlRows(d) == [i \in 1..Len(d) |-> <<d[i][1], Str(d[i][2])>>]

\* python_analysis.py generate_word_report: the documents it saves
PyGenerateWordReport(ms, agg) ==
    IF agg = <<>> THEN <<>>
    ELSE << [kind |-> "docx",
             agg |-> << WordRows(agg) >>,
             sections |->
                [i \in 1..Len(ms) |->
                    [file |-> Get(ms[i], "file_path"),
                     bands |-> << Band(Get(ms[i], "Maintainability Index")) >>,
                     rows |-> WordRows(SelectSeq(ms[i], NotFilePath))]]] >>

\* python_analysis.py generate_html_report: the page stops after the header
PyGenerateHtmlReport(ms, agg) ==
    IF agg = <<>> THEN <<>>
    ELSE << [kind |-> "html", agg |-> <<>>, sections |-> <<>>] >>

\* react_analyzer.py generate_html_report: no test on aggregated_metrics, and
\* the .good/.moderate/.poor classes are not applied to anything
ReactGenerateHtmlReport(ms, agg) ==
    << [kind |-> "html",
        agg |-> << HtmlRows(agg) >>,
        sections |->
           [i \in 1..Len(ms) |->
               [file |-> Get(ms[i], "file_path"),
                bands |-> <<>>,
                rows |-> HtmlRows(SelectSeq(ms[i], NotFilePath))]]] >>

\* the exception the renderer call raises: react_analyzer.py calls
\* generate_word_report, a name the module never defines
RenderRaises(an, fmt) ==
    IF an = "react" /\ fmt # "html" THEN "NameError" ELSE "none"

\* the documents one renderer call writes at output_path
Written(an, fmt, ms, agg) ==
    IF an = "python"
    THEN IF fmt = "html" THEN PyGenerateHtmlReport(ms, agg)
         ELSE PyGenerateWordReport(ms, agg)
    ELSE IF fmt = "html" THEN ReactGenerateHtmlReport(ms, agg)
         ELSE <<>>

\* the last statement of __main__
Render ==
    /\ pc = "render"
    /\ output' = output \o Written(analyzer, report_format, all_metrics, aggregated)
    /\ exc' = RenderRaises(analyzer, report_format)
    /\ pc' = IF RenderRaises(analyzer, report_format) = "none"
             THEN "done" ELSE "failed"
    /\ UNCHANGED <<analyzer, report_format, root_ok, parent, dname, files, stack,
                   pending, all_metrics, error_log, aggregated, passed>>

-----------------------------------------------------------------------------
(* The runs *)

Start ==
    /\ stack = <<Root>>
    /\ pending = <<>>
    /\ all_metrics = <<>>
    /\ error_log = <<>>
    /\ aggregated = <<>>
    /\ output = <<>>
    /\ passed = <<>>
    /\ exc = "none"
    /\ pc = "walk"

\* a flat folder: up to MaxFiles files, no subdirectories
Init ==
    /\ analyzer \in {"python", "react"}
    /\ report_format \in {"html", "word"}
    /\ root_ok \in BOOLEAN
    /\ parent = <<>>
    /\ dname = <<>>
    /\ \E S \in SUBSET FileNames :
          /\ Cardinality(S) <= MaxFiles
          /\ files = {[dir |-> Root, name |-> n] : n \in S}
    /\ Start

Next ==
    \/ VisitDir
    \/ SkipFile
    \/ AnalyzeFile(Outcomes(analyzer))
    \/ EndWalk
    \/ Aggregate
    \/ Render

Spec == Init /\ [][Next]_vars

\* a nested folder: MaxDirs directories below the root, each directory holding
\* one Python and one TypeScript file; sibling directories have different names
WalkInit ==
    /\ analyzer \in {"python", "react"}
    /\ report_format = "html"
    /\ root_ok \in BOOLEAN
    /\ parent \in {p \in [1..MaxDirs -> 0..MaxDirs] : \A d \in 1..MaxDirs : p[d] < d}
    /\ dname \in {n \in [1..MaxDirs -> DirNames] :
                    \A c, d \in 1..MaxDirs :
                        (c # d /\ parent[c] = parent[d]) => n[c] # n[d]}
    /\ files = {[dir |-> d, name |-> n] :
                    d \in 0..MaxDirs, n \in {Name_a_py, Name_f_ts}}
    /\ Start

\* the tool outcomes of the nested-folder runs: one clean, one with a caught failure
WalkOutcomes(an) ==
    IF an = "python"
    THEN {o \in PyOutcomes : PyRaises(o) = "none" /\ o.cc = <<1>>
                             /\ o.lines = 12 /\ o.halstead}
    ELSE {o \in ReactOutcomes :
            /\ o.eslint = [kind |-> "ok", results |-> <<2>>]
            /\ \/ o.cr.kind = "exit"
               \/ o.cr.kind = "ok" /\ o.cr.cc = <<2, 9>>}

WalkNext ==
    \/ VisitDir
    \/ SkipFile
    \/ AnalyzeFile(WalkOutcomes(analyzer))
    \/ EndWalk
    \/ Aggregate
    \/ Render

WalkSpec == WalkInit /\ [][WalkNext]_vars

-----------------------------------------------------------------------------
(* Shared vocabulary of the properties *)

\* the file_path of each record of a list of metrics records
Paths(ms) == [i \in 1..Len(ms) |-> Get(ms[i], "file_path")]

PassedFiles == [i \in 1..Len(passed) |-> passed[i].file]

\* the renderer has been called
Rendered == pc = "done" \/ exc = "NameError"

InRange0To100(x) == 0 <= x.m /\ x.m <= I(100).m

\* a rendered number read back, in thousandths
ParseText(t) == t.val * Pow10(3 - t.dec)

-----------------------------------------------------------------------------
(* C1 *)

\* C1: whatever the external tools and the source files do, no fault of
\* analyze_code ends the run, and the list analyze_project_folder builds holds
\* exactly one record per file handed to analyze_code, in that order.
C1_NoFaultEscapes ==
    /\ exc \notin {"OSError", "SyntaxError", "JSONDecodeError", "KeyError"}
    /\ Paths(all_metrics) = PassedFiles

-----------------------------------------------------------------------------
(* C2 *)

\* the metrics complexity-report supplies, Maintainability Index apart
CrSuppliedKeys ==
    {"Cyclomatic Complexity (avg)", "Cyclomatic Complexity (max)",
     "Halstead Vocabulary", "Halstead Length", "Halstead Volume",
     "Halstead Effort", "Halstead Difficulty", "Total Operators",
     "Total Operands"}

\* C2: a record returned for a file whose tool call failed has every metric of
\* that tool at 0 and Maintainability Index at 100: ESLint Issues 0 after an
\* ESLint failure, PEP-8 Score 0 after a pylint failure, and after a
\* complexity-report failure all its metrics 0 (Total Operators and Total
\* Operands included) and Maintainability Index 100.
C2_FailureDefaults ==
    \A i \in 1..Len(all_metrics) :
        LET r == all_metrics[i]
            failed == passed[i].failed
        IN  /\ "eslint" \in failed => Get(r, "ESLint Issues").m = 0
            /\ "pylint" \in failed => Get(r, "PEP-8 Score").m = 0
            /\ "complexity-report" \in failed =>
                  /\ \A k \in CrSuppliedKeys : Get(r, k).m = 0
                  /\ Get(r, "Maintainability Index") = I(100)

-----------------------------------------------------------------------------
(* C3 *)

\* the step is one analyze_code call
CallStep == Len(passed') = Len(passed) + 1

\* the tools whose failures C3 speaks of
ExternalTools == {"eslint", "complexity-report", "pylint"}

-----------------------------------------------------------------------------
(* C4 *)

\* C4: when the folder can be listed and the aggregated mapping is empty, the
\* renderer call writes nothing at the output path and the run ends
\* successfully, in either analyzer and for either format.
C4_EmptyMappingWritesNothing ==
    (root_ok /\ Rendered /\ aggregated = <<>>) => (output = <<>> /\ pc = "done")

-----------------------------------------------------------------------------
(* C5 *)

MaintainabilityOf(r) == Get(r, "Maintainability Index")

-----------------------------------------------------------------------------
(* C6 *)

\* C6: when the aggregated mapping is not empty, the renderer call completes
\* and writes exactly one report at the output path, in either analyzer and
\* for either format.
C6_OneReportWritten ==
    (Rendered /\ aggregated # <<>>) => (pc = "done" /\ Len(output) = 1)

-----------------------------------------------------------------------------
(* C7 *)

RECURSIVE UnderExcluded(_)
\* directory d is, or lies below, a directory below the root whose name is in
\* the exclusion set
UnderExcluded(d) ==
    IF d = Root THEN FALSE
    ELSE dname[d] \in ExcludeFolders(analyzer) \/ UnderExcluded(parent[d])

\* C7: no directory in or below an excluded directory is ever queued for a
\* visit, and no file in or below one is ever handed to analyze_code.
C7_ExcludedNeverDescended ==
    /\ \A i \in 1..Len(stack) : ~UnderExcluded(stack[i])
    /\ \A i \in 1..Len(pending) : ~UnderExcluded(pending[i].dir)
    /\ \A i \in 1..Len(passed) : ~UnderExcluded(passed[i].file.dir)

\* a finished walk of a tree with an excluded directory two levels down that
\* has a subdirectory of its own, in which files outside it were analyzed
C7_Witness ==
    /\ pc = "done"
    /\ \E d, c \in DOMAIN dname :
          /\ dname[d] \in ExcludeFolders(analyzer)
          /\ parent[d] # Root
          /\ ~UnderExcluded(parent[d])
          /\ parent[c] = d
          /\ [dir |-> c, name |-> Name_a_py] \in files
          /\ [dir |-> c, name |-> Name_f_ts] \in files
    /\ Len(passed) >= 2
    /\ \E i \in 1..Len(passed) : passed[i].file.dir # Root

-----------------------------------------------------------------------------
(* C8 *)

\* C8: when the root cannot be listed, the run aborts with a failure: it never
\* gets to aggregation, writes no report and does not end as a success.
C8_BadRootAborts ==
    ~root_ok => (pc \in {"walk", "failed"} /\ aggregated = <<>> /\ output = <<>>)

-----------------------------------------------------------------------------
(* C9 *)

\* C9: every report written has one section per analyzed file, and each
\* section carries exactly one band, the one of that file's Maintainability
\* Index: favorable from 80, moderate from 50, unfavorable below.
C9_OneBandPerSection ==
    \A k \in 1..Len(output) :
        /\ Len(output[k].sections) = Len(all_metrics)
        /\ \A i \in 1..Len(output[k].sections) :
              /\ output[k].sections[i].file = Get(all_metrics[i], "file_path")
              /\ output[k].sections[i].bands =
                    << IF MaintainabilityOf(all_metrics[i]).m >= 80000
                       THEN "favorable"
                       ELSE IF MaintainabilityOf(all_metrics[i]).m >= 50000
                            THEN "moderate"
                            ELSE "unfavorable" >>

-----------------------------------------------------------------------------
(* C10 *)

-----------------------------------------------------------------------------
(* C11 *)

\* aggregate_metrics has returned
Aggregated == pc \in {"render", "done"} \/ exc = "NameError"

\* C11: once aggregate_metrics has returned, the mapping is empty when the
\* list of records is empty, and otherwise has exactly one "Total Files"
\* entry, the int equal to the number of records, a record made of fallback
\* values counting like any other.
C11_TotalFilesIsLength ==
    Aggregated =>
        IF all_metrics = <<>>
        THEN aggregated = <<>>
        ELSE /\ Cardinality({j \in 1..Len(aggregated) :
                                aggregated[j][1] = "Total Files"}) = 1
             /\ \A j \in 1..Len(aggregated) :
                   aggregated[j][1] = "Total Files" =>
                      (~aggregated[j][2].f
                       /\ aggregated[j][2].m = 1000 * Len(all_metrics))

\* two records aggregated, the first from a call in which a tool failed and
\* the second from a clean call: both are counted
C11_Witness ==
    /\ Aggregated
    /\ Len(all_metrics) = 2
    /\ passed[1].failed # {}
    /\ passed[2].failed = {}
    /\ \E j \in 1..Len(aggregated) :
          aggregated[j] = <<"Total Files", [f |-> FALSE, m |-> 2000]>>

====
